---- MODULE Spec2Model ----
(***************************************************************************)
(* Model of src/src/preprocessing.py: the four spectral preprocessing      *)
(* transforms msc, snv, smooth and savgol, together with the numpy/scipy   *)
(* behaviour they rely on (array copies and views, element-wise binary     *)
(* floating point, ndimage boundary extension, parameter validation).      *)
(*                                                                         *)
(* Numbers are binary floating-point values with MantBits significant      *)
(* bits, round-to-nearest-even after every elementary operation, and the   *)
(* IEEE special values inf, -inf and nan.  The exponent range is           *)
(* unbounded (no overflow or underflow) and zero carries no sign.          *)
(***************************************************************************)
EXTENDS Integers, Sequences, FiniteSets, TLC

\* Significant bits of the floating-point format (binary64 has 53).
MantBits == 8
\* Largest number of rows (samples) of an input matrix.
MaxRows == 2
\* Largest number of columns (channels) of an input matrix.
MaxCols == 3

(***************************************************************************)
(* Floating point                                                          *)
(***************************************************************************)

Abs(n) == IF n < 0 THEN -n ELSE n

Sgn(n) == IF n < 0 THEN -1 ELSE IF n > 0 THEN 1 ELSE 0

Min(a, b) == IF a <= b THEN a ELSE b

Max(a, b) == IF a >= b THEN a ELSE b

RECURSIVE BitLen(_)
\* Number of bits of the natural number n (0 for 0).
BitLen(n) == IF n = 0 THEN 0 ELSE 1 + BitLen(n \div 2)

\* A finite value m * 2^e; the canonical form has m odd, or m = 0 and e = 0.
Fin(m, e) == [k |-> "fin", m |-> m, e |-> e]

NaN == [k |-> "nan", m |-> 0, e |-> 0]

PosInf == [k |-> "inf", m |-> 1, e |-> 0]

NegInf == [k |-> "inf", m |-> -1, e |-> 0]

Zero == Fin(0, 0)

IsFinite(x) == x.k = "fin"

IsZero(x) == x.k = "fin" /\ x.m = 0

RECURSIVE Normalize(_, _)
\* m * 2^e in canonical form.
Normalize(m, e) ==
    IF m = 0 THEN Zero
    ELSE IF m % 2 = 0 THEN Normalize(m \div 2, e + 1)
    ELSE Fin(m, e)

\* The exact value m * 2^e rounded to MantBits significant bits, ties to even.
Round(m, e) ==
    LET a == Abs(m)
        s == BitLen(a) - MantBits
    IN  IF s <= 0 THEN Normalize(m, e)
        ELSE LET q    == a \div (2 ^ s)
                 r    == a % (2 ^ s)
                 half == 2 ^ (s - 1)
                 up   == r > half \/ (r = half /\ q % 2 = 1)
                 q1   == IF up THEN q + 1 ELSE q
             IN  Normalize(Sgn(m) * q1, e + s)

FromInt(n) == Round(n, 0)

FNeg(x) ==
    IF x.k = "nan" THEN NaN
    ELSE IF x.k = "inf" THEN (IF x.m > 0 THEN NegInf ELSE PosInf)
    ELSE Fin(-x.m, x.e)

\* x + y
FAdd(x, y) ==
    IF x.k = "nan" \/ y.k = "nan" THEN NaN
    ELSE IF x.k = "inf" /\ y.k = "inf" THEN (IF x.m = y.m THEN x ELSE NaN)
    ELSE IF x.k = "inf" THEN x
    ELSE IF y.k = "inf" THEN y
    ELSE IF x.m = 0 THEN y
    ELSE IF y.m = 0 THEN x
    \* an operand below a quarter of the other's last place does not change it
    ELSE IF x.e - y.e > 2 * MantBits + 4 THEN x
    ELSE IF y.e - x.e > 2 * MantBits + 4 THEN y
    ELSE LET e0 == Min(x.e, y.e)
         IN  Round(x.m * 2 ^ (x.e - e0) + y.m * 2 ^ (y.e - e0), e0)

\* x - y
FSub(x, y) == FAdd(x, FNeg(y))

\* x * y
FMul(x, y) ==
    IF x.k = "nan" \/ y.k = "nan" THEN NaN
    ELSE IF x.k = "inf" \/ y.k = "inf"
         THEN (IF IsZero(x) \/ IsZero(y) THEN NaN
               ELSE IF Sgn(x.m) * Sgn(y.m) > 0 THEN PosInf ELSE NegInf)
    ELSE Round(x.m * y.m, x.e + y.e)

\* x / y (numpy true division: a zero divisor gives inf or nan, never raises)
FDiv(x, y) ==
    IF x.k = "nan" \/ y.k = "nan" THEN NaN
    ELSE IF x.k = "inf"
         THEN (IF y.k = "inf" THEN NaN
               ELSE IF Sgn(x.m) * (IF y.m < 0 THEN -1 ELSE 1) > 0 THEN PosInf ELSE NegInf)
    ELSE IF y.k = "inf" THEN Zero
    ELSE IF y.m = 0
         THEN (IF x.m = 0 THEN NaN ELSE IF x.m > 0 THEN PosInf ELSE NegInf)
    ELSE IF x.m = 0 THEN Zero
    ELSE LET s  == Max(0, MantBits + 2 + BitLen(Abs(y.m)) - BitLen(Abs(x.m)))
             n  == Abs(x.m) * 2 ^ s
             d  == Abs(y.m)
             q  == n \div d
             st == IF n % d = 0 THEN 0 ELSE 1
         IN  Round(Sgn(x.m) * Sgn(y.m) * (2 * q + st), x.e - y.e - s - 1)

RECURSIVE ISqrt(_, _, _)
\* Largest q in lo..hi with q * q <= n, by bisection.
ISqrt(n, lo, hi) ==
    IF lo >= hi THEN lo
    ELSE LET mid == (lo + hi + 1) \div 2
         IN  IF mid * mid <= n THEN ISqrt(n, mid, hi) ELSE ISqrt(n, lo, mid - 1)

\* sqrt(x)
FSqrt(x) ==
    IF x.k = "nan" THEN NaN
    ELSE IF x.k = "inf" THEN (IF x.m > 0 THEN PosInf ELSE NaN)
    ELSE IF x.m < 0 THEN NaN
    ELSE IF x.m = 0 THEN Zero
    ELSE LET s0 == Max(0, 2 * MantBits + 2 - BitLen(x.m))
             s  == IF (x.e - s0) % 2 = 0 THEN s0 ELSE s0 + 1
             n  == x.m * 2 ^ s
             q  == ISqrt(n, 0, 2 ^ (MantBits + 3))
             st == IF q * q = n THEN 0 ELSE 1
         IN  Round(2 * q + st, (x.e - s) \div 2 - 1)

(***************************************************************************)
(* numpy helpers on 1-D arrays (sequences of floating-point values)        *)
(***************************************************************************)

RECURSIVE SumFrom(_, _, _)
\* np.add.reduce: left-to-right accumulation (arrays shorter than 8 elements).
SumFrom(s, j, acc) ==
    IF j > Len(s) THEN acc ELSE SumFrom(s, j + 1, FAdd(acc, s[j]))

Sum(s) == IF Len(s) = 0 THEN Zero ELSE SumFrom(s, 2, s[1])

\* np.mean of a 1-D array
Mean(s) == FDiv(Sum(s), FromInt(Len(s)))

\* s - c, element-wise
SubScalar(s, c) == [j \in 1..Len(s) |-> FSub(s[j], c)]

\* s / c, element-wise
DivScalar(s, c) == [j \in 1..Len(s) |-> FDiv(s[j], c)]

\* ddof = 1, the sample standard deviation.
StdDivisorSample(len) == len - 1

\* Divisor of the variance in np.std: ddof = 0, the population standard deviation.
StdDivisor(len) == len

\* np.std of a 1-D array: sqrt(mean(abs(s - mean(s))**2))
Std(s) ==
    LET dev == SubScalar(s, Mean(s))
        sq  == [j \in 1..Len(s) |-> FMul(dev[j], dev[j])]
    IN  FSqrt(FDiv(Sum(sq), FromInt(StdDivisor(Len(s)))))

AllEqual(s) == \A j \in 1..Len(s) : s[j] = s[1]

AllFinite(s) == \A j \in 1..Len(s) : IsFinite(s[j])

NoneFinite(s) == \A j \in 1..Len(s) : ~IsFinite(s[j])

(***************************************************************************)
(* Matrices: n rows of m columns; d[r] is row r (1-based)                  *)
(***************************************************************************)

Matrix(n, m, d) == [n |-> n, m |-> m, d |-> d]

\* np.zeros_like(a)
ZerosLike(a) == Matrix(a.n, a.m, [r \in 1..a.n |-> [j \in 1..a.m |-> Zero]])

\* a with row r (1-based) replaced by row: the assignment a[r-1, :] = row
SetRow(a, r, row) == [a EXCEPT !.d[r] = row]

\* shape of a matrix
Shape(a) == <<a.n, a.m>>

RowCountShort(a) == IF a.n > 0 THEN a.n - 1 ELSE 0

\* a.shape[0], the bound of the row loops
RowCount(a) == a.n

WellShaped(a) == Len(a.d) = a.n /\ \A r \in 1..a.n : Len(a.d[r]) = a.m

\* np.mean(a, axis=0): per column, the rows accumulated top to bottom
ColumnMean(a) ==
    [j \in 1..a.m |-> FDiv(Sum([r \in 1..a.n |-> a.d[r][j]]), FromInt(a.n))]

(***************************************************************************)
(* np.polyfit(x, y, 1)                                                     *)
(***************************************************************************)

Fit(exc, a, b) == [exc |-> exc, a |-> a, b |-> b]

\* Least-squares line through a full-rank design: slope and intercept.
LineFit(x, y) ==
    LET xm  == Mean(x)
        ym  == Mean(y)
        dx  == SubScalar(x, xm)
        dy  == SubScalar(y, ym)
        sxx == Sum([j \in 1..Len(x) |-> FMul(dx[j], dx[j])])
        sxy == Sum([j \in 1..Len(x) |-> FMul(dx[j], dy[j])])
        a   == FDiv(sxy, sxx)
    IN  Fit("none", a, FSub(ym, FMul(a, xm)))

\* Minimum-norm solution of the rank-1 design of a constant, nonzero x
\* (columns scaled to unit norm before the solve, as polyfit does).
ConstFit(x, y) ==
    LET ym == Mean(y)
    IN  Fit("none", FDiv(ym, FMul(FromInt(2), x[1])), FDiv(ym, FromInt(2)))

\* The outcomes of np.polyfit(x, y, 1, full=True)[0]: fit[0][0] is the slope a,
\* fit[0][1] the intercept b.  An all-zero x makes the scaled design matrix nan
\* (0/0); the LAPACK solve then either fails to converge (LinAlgError) or
\* returns nan coefficients, depending on the build.
Polyfit(x, y) ==
    IF Len(x) # Len(y) THEN {Fit("TypeError", NaN, NaN)}
    ELSE IF \A j \in 1..Len(x) : IsZero(x[j])
         THEN {Fit("LinAlgError", NaN, NaN), Fit("none", NaN, NaN)}
    ELSE IF AllEqual(x) THEN {ConstFit(x, y)}
    ELSE {LineFit(x, y)}

(***************************************************************************)
(* scipy.ndimage boundary extension and convolution                        *)
(***************************************************************************)

Modes == {"reflect", "constant", "nearest", "mirror", "wrap"}

\* The element (0-based) of a line of length m that position idx reads under a
\* boundary mode; -1 stands for the constant fill value cval = 0.
ExtIndex(idx, m, mode) ==
    IF 0 <= idx /\ idx < m THEN idx
    ELSE IF mode = "constant" THEN -1
    ELSE IF mode = "nearest" THEN (IF idx < 0 THEN 0 ELSE m - 1)
    ELSE IF mode = "wrap" THEN idx % m
    ELSE IF mode = "reflect"
         THEN LET k == idx % (2 * m) IN IF k < m THEN k ELSE 2 * m - 1 - k
    ELSE \* mirror
         IF m = 1 THEN 0
         ELSE LET k == idx % (2 * m - 2) IN IF k < m THEN k ELSE 2 * m - 2 - k

ExtValue(x, idx, mode) ==
    LET k == ExtIndex(idx, Len(x), mode) IN IF k < 0 THEN Zero ELSE x[k + 1]

Reverse(s) == [j \in 1..Len(s) |-> s[Len(s) + 1 - j]]

ConvOriginShifted(len) == -1

\* Origin of the flipped kernel: convolve negates the origin (0) and moves an
\* even-length kernel one place.
ConvOrigin(len) == IF len % 2 = 0 THEN -1 ELSE 0

RECURSIVE Accumulate(_, _, _, _, _, _)
\* tmp += x_ext[base + j] * w[j + 1] for j = j0 .. Len(w) - 1
Accumulate(x, w, base, mode, j, tmp) ==
    IF j >= Len(w) THEN tmp
    ELSE Accumulate(x, w, base, mode, j + 1,
                    FAdd(tmp, FMul(ExtValue(x, base + j, mode), w[j + 1])))

\* Valid-mode correlation: only the positions where the kernel fits in the line.
CorrelateValid(x, w, mode, origin) ==
    [l \in 1..(Len(x) - Len(w) + 1) |->
        Accumulate(x, w, l - 1, mode, 0, Zero)]

\* Same-size correlation of the line x with the kernel w about the origin.
Correlate(x, w, mode, origin) ==
    [l \in 1..Len(x) |->
        Accumulate(x, w, (l - 1) - (Len(w) \div 2) - origin, mode, 0, Zero)]

Result(exc, val) == [exc |-> exc, val |-> val]

\* A convolve that accepts an empty kernel (the output is all zero).
NdConvolveNoShapeCheck(x, weights, mode) ==
    IF mode \notin Modes THEN Result("RuntimeError", <<>>)
    ELSE Result("none", Correlate(x, Reverse(weights), mode, ConvOrigin(Len(weights))))

\* scipy.ndimage.convolve(x, weights, mode=mode) on a 1-D line: an empty kernel
\* and an unknown mode raise RuntimeError before any output is produced.
NdConvolve(x, weights, mode) ==
    IF Len(weights) = 0 THEN Result("RuntimeError", <<>>)
    ELSE IF mode \notin Modes THEN Result("RuntimeError", <<>>)
    ELSE Result("none", Correlate(x, Reverse(weights), mode, ConvOrigin(Len(weights))))

(***************************************************************************)
(* scipy.signal.savgol_filter(x, window_length, polyorder, deriv,          *)
(*                            delta=1.0, axis=1, mode="interp")            *)
(* The coefficient and edge fits are given for polyorder 0 and 1.          *)
(***************************************************************************)

\* savgol_coeffs: zeros when deriv > polyorder; otherwise the least-squares
\* weights, in convolution order, of the value (deriv = 0) or of the slope
\* (deriv = 1) of the local fit at the window's centre.
SavgolCoeffs(win, poly, deriv) ==
    IF deriv > poly THEN [j \in 1..win |-> Zero]
    ELSE IF deriv = 0 THEN [j \in 1..win |-> FDiv(FromInt(1), FromInt(win))]
    ELSE LET X(j)  == (win - 1) - 2 * (j - 1)
             RECURSIVE SumSq(_)
             SumSq(j) == IF j > win THEN 0 ELSE X(j) * X(j) + SumSq(j + 1)
         IN  [j \in 1..win |-> FDiv(FromInt(2 * X(j)), FromInt(SumSq(1)))]

RECURSIVE PairAccumulate(_, _, _, _, _, _)
\* tmp += (x_ext[at + jj] + sign * x_ext[at - jj]) * fw[c + jj] for jj = jj0 .. -1
PairAccumulate(x, fw, at, sign, jj, tmp) ==
    IF jj >= 0 THEN tmp
    ELSE LET c  == Len(fw) \div 2 + 1
             lo == ExtValue(x, at + jj, "constant")
             hi == ExtValue(x, at - jj, "constant")
             pr == IF sign > 0 THEN FAdd(lo, hi) ELSE FSub(lo, hi)
         IN  PairAccumulate(x, fw, at, sign, jj + 1, FAdd(tmp, FMul(pr, fw[c + jj])))

\* scipy.ndimage.correlate1d with mode="constant": odd symmetric and
\* antisymmetric kernels are accumulated in pairs about the centre.
Correlate1d(x, fw, origin) ==
    LET L     == Len(fw)
        size1 == L \div 2
        c     == size1 + 1
        sym   == L % 2 = 1 /\ \A k \in 1..size1 : fw[c + k] = fw[c - k]
        anti  == L % 2 = 1 /\ \A k \in 1..size1 : fw[c + k] = FNeg(fw[c - k])
    IN  [l \in 1..Len(x) |->
            LET at == (l - 1) - origin
            IN  IF sym \/ anti
                THEN PairAccumulate(x, fw, at, IF sym THEN 1 ELSE -1, -size1,
                                    FMul(ExtValue(x, at, "constant"), fw[c]))
                ELSE Accumulate(x, SubSeq(fw, 1, L - 1), at - size1, "constant", 0,
                                FMul(ExtValue(x, at + L - size1 - 1, "constant"), fw[L]))]

\* _fit_edge: the polynomial fitted to the window xx (positions 0 .. win-1),
\* or its derivative, evaluated at position t.
EdgeValue(xx, poly, deriv, t) ==
    IF deriv > poly THEN Zero
    ELSE IF poly = 0 THEN Mean(xx)
    ELSE LET f == LineFit([j \in 1..Len(xx) |-> FromInt(j - 1)], xx)
         IN  IF deriv = 1 THEN f.a
             ELSE FAdd(FMul(f.a, FromInt(t)), f.b)

\* One row of the filtered output: the convolution, with the halflen elements
\* at each end replaced by the edge fits.
SavgolRow(x, win, poly, deriv) ==
    LET m       == Len(x)
        halflen == win \div 2
        coeffs  == SavgolCoeffs(win, poly, deriv)
        y       == Correlate1d(x, Reverse(coeffs), ConvOrigin(win))
    IN  [l \in 1..m |->
            IF l <= halflen
            THEN EdgeValue(SubSeq(x, 1, win), poly, deriv, l - 1)
            ELSE IF l > m - halflen
            THEN EdgeValue(SubSeq(x, m - win + 1, m), poly, deriv, (l - 1) - (m - win))
            ELSE y[l]]

\* Whether this SciPy build rejects an even window_length (releases before
\* 1.11 do; later ones accept it).
OddWindowRequired(build) == build = "odd-only"

\* A savgol_filter that does not compare polyorder with window_length.
SavgolFilterNoOrderCheck(x, win, poly, deriv, build) ==
    IF win % 2 = 0 /\ OddWindowRequired(build) THEN Result("ValueError", x)
    ELSE IF win > x.m THEN Result("ValueError", x)
    ELSE Result("none",
                Matrix(x.n, x.m, [r \in 1..x.n |-> SavgolRow(x.d[r], win, poly, deriv)]))

\* The outcome of savgol_filter on the matrix x: the parameter checks come
\* first and read no data.
SavgolFilter(x, win, poly, deriv, build) ==
    IF poly >= win THEN Result("ValueError", x)
    ELSE IF win % 2 = 0 /\ OddWindowRequired(build) THEN Result("ValueError", x)
    ELSE IF win > x.m THEN Result("ValueError", x)
    ELSE Result("none",
                Matrix(x.n, x.m, [r \in 1..x.n |-> SavgolRow(x.d[r], win, poly, deriv)]))

(***************************************************************************)
(* Inputs                                                                  *)
(***************************************************************************)

One == FromInt(1)

\* A value whose triple is not representable, so that the mean of a constant
\* row of three rounds away from the constant (as 0.1 does in binary64).
Awkward == FromInt(2 ^ MantBits - 2)

ConstRow(m, v) == [j \in 1..m |-> v]

Ramp(m) == [j \in 1..m |-> FromInt(j)]

Spike(m) == [j \in 1..m |-> IF j = 1 THEN Awkward ELSE One]

Rows(m) == {ConstRow(m, One), ConstRow(m, Awkward), Ramp(m), Spike(m)}

\* The float64 matrices a caller passes: 0..MaxRows rows, 1..MaxCols columns.
Inputs ==
    UNION {UNION {{Matrix(n, m, d) : d \in [1..n -> Rows(m)]} : n \in 0..MaxRows}
           : m \in 1..MaxCols}

None == [given |-> FALSE, val |-> <<>>]

Given(v) == [given |-> TRUE, val |-> v]

\* reference arguments of msc: absent, full rank, constant, all zero, too long
References(m) ==
    {None, Given(Ramp(m)), Given(ConstRow(m, One)), Given(ConstRow(m, Zero)),
     Given(Ramp(m + 1))}

\* Default arguments of smooth and savgol.
SmoothDefaultWin == 11

SavgolDefaultWin == 15

SavgolDefaultPoly == 2

SavgolDefaultDeriv == 0

FilterWins == {-1, 0, 1, 2, 3, SmoothDefaultWin}

WindowTypes == {"flat", "boxcar", "bogus"}

ModeArgs == Modes \cup {"bogus"}

\* (filter_win, window_type, mode) arguments of smooth: every window length with
\* every mode for the flat window, and with every window type for mode reflect.
SmoothArgs ==
    {<<w, "flat", md>> : w \in FilterWins, md \in ModeArgs}
        \cup {<<w, t, "reflect">> : w \in FilterWins, t \in WindowTypes}

SavgolArgs ==
    {<<w, p, d>> : w \in {1, 2, 3}, p \in {0, 1}, d \in {0, 1, 2}}
        \cup {<<SavgolDefaultWin, SavgolDefaultPoly, SavgolDefaultDeriv>>}

Builds == {"odd-only", "even-ok"}

(***************************************************************************)
(* State                                                                   *)
(***************************************************************************)

VARIABLES
    caller,       \* the array object the caller passes (and keeps)
    orig,         \* the value of that matrix when the call was made
    call,         \* the call in progress and its arguments
    pc,           \* position in the called function
    i,            \* loop index (0-based, as range())
    bound,        \* the array msc's name input_data designates: "caller" or "copy"
    input_data,   \* the array made by input_data.copy() in msc
    ref,          \* msc's reference spectrum
    data_msc,     \* msc's result array
    output_data,  \* snv's result array
    window,       \* smooth's normalised window
    filtered,     \* the array savgol_filter returns
    ret,          \* the array object returned: "none" until the call returns
    exc,          \* the exception that ended the call, "none" otherwise
    prev          \* the inputs and result of the caller's previous call

vars == <<caller, orig, call, pc, i, bound, input_data, ref, data_msc,
          output_data, window, filtered, ret, exc, prev>>

NoMatrix == Matrix(0, 0, <<>>)

NoCall == [fn |-> "none"]

NoPrev == [fn |-> "none"]

Init ==
    /\ caller \in Inputs
    /\ orig = caller
    /\ call = NoCall
    /\ pc = "idle"
    /\ i = 0
    /\ bound = "caller"
    /\ input_data = NoMatrix
    /\ ref = <<>>
    /\ data_msc = NoMatrix
    /\ output_data = NoMatrix
    /\ window = <<>>
    /\ filtered = NoMatrix
    /\ ret = "none"
    /\ exc = "none"
    /\ prev = NoPrev

\* The array a returned name designates.
Returned ==
    CASE ret = "caller" -> caller
      [] ret = "data_msc" -> data_msc
      [] ret = "output_data" -> output_data
      [] ret = "filtered" -> filtered
      [] OTHER -> NoMatrix

Raise(e) == pc' = "raised" /\ exc' = e

\* A second call repeats the arguments of the first.
SameCall(c) == IF prev.fn = "none" THEN TRUE ELSE prev.call = c

(***************************************************************************)
(* msc(input_data, reference=None)                                         *)
(***************************************************************************)

\* No copy: the name keeps designating the caller's array.
MscBindingNoCopy == "caller"

\* What the name input_data designates after line 19: a copy of the argument.
MscBinding == "copy"

\* The array msc works on.
MscData == IF bound = "caller" THEN caller ELSE input_data

CallMsc(reference) ==
    /\ pc = "idle"
    /\ SameCall([fn |-> "msc", reference |-> reference])
    /\ call' = [fn |-> "msc", reference |-> reference]
    /\ bound' = MscBinding
    /\ input_data' = caller
    /\ pc' = "msc_centre"
    /\ i' = 0
    /\ UNCHANGED <<caller, orig, ref, data_msc, output_data, window, filtered,
                   ret, exc, prev>>

\* Centring on the mean of the whole array, input_data.mean(), instead of the
\* row's own.
MscCentreGlobal ==
    /\ pc = "msc_centre"
    /\ i < RowCount(MscData)
    /\ LET row == MscData.d[i + 1]
           all == Mean([r \in 1..MscData.n |-> Mean(MscData.d[r])])
           new == SetRow(MscData, i + 1, SubScalar(row, all))
       IN  IF bound = "caller"
           THEN caller' = new /\ UNCHANGED input_data
           ELSE input_data' = new /\ UNCHANGED caller
    /\ i' = i + 1
    /\ UNCHANGED <<orig, call, pc, bound, ref, data_msc, output_data, window,
                   filtered, ret, exc, prev>>

\* for i in range(shape[0]): input_data[i,:] -= input_data[i,:].mean()
MscCentre ==
    /\ pc = "msc_centre"
    /\ i < RowCount(MscData)
    /\ LET row == MscData.d[i + 1]
           new == SetRow(MscData, i + 1, SubScalar(row, Mean(row)))
       IN  IF bound = "caller"
           THEN caller' = new /\ UNCHANGED input_data
           ELSE input_data' = new /\ UNCHANGED caller
    /\ i' = i + 1
    /\ UNCHANGED <<orig, call, pc, bound, ref, data_msc, output_data, window,
                   filtered, ret, exc, prev>>

\* The reference spectrum: the column mean of the centred data unless given.
MscReference(reference, data) ==
    IF reference.given THEN reference.val ELSE ColumnMean(data)

\* lines 25-31: choose the reference, allocate the result
MscRef ==
    /\ pc = "msc_centre"
    /\ i = RowCount(MscData)
    /\ ref' = MscReference(call.reference, MscData)
    /\ data_msc' = ZerosLike(MscData)
    /\ pc' = "msc_fit"
    /\ i' = 0
    /\ UNCHANGED <<caller, orig, call, bound, input_data, output_data, window,
                   filtered, ret, exc, prev>>

\* (row - fit[0][1]) / fit[0][0]
MscCorrect(row, fit) == DivScalar(SubScalar(row, fit.b), fit.a)

\* One pass of the regression loop: polyfit raises, or the row is corrected.
MscFit ==
    /\ pc = "msc_fit"
    /\ i < RowCount(MscData)
    /\ \E fit \in Polyfit(ref, MscData.d[i + 1]) :
          \/ /\ fit.exc # "none"
             /\ Raise(fit.exc)
             /\ UNCHANGED <<i, data_msc>>
          \/ /\ fit.exc = "none"
             /\ data_msc' = SetRow(data_msc, i + 1, MscCorrect(MscData.d[i + 1], fit))
             /\ i' = i + 1
             /\ UNCHANGED <<pc, exc>>
    /\ UNCHANGED <<caller, orig, call, bound, input_data, ref, output_data,
                   window, filtered, ret, prev>>

MscReturn ==
    /\ pc = "msc_fit"
    /\ i = RowCount(MscData)
    /\ ret' = "data_msc"
    /\ pc' = "returned"
    /\ UNCHANGED <<caller, orig, call, i, bound, input_data, ref, data_msc,
                   output_data, window, filtered, exc, prev>>

(***************************************************************************)
(* snv(input_data)                                                         *)
(***************************************************************************)

CallSnv ==
    /\ pc = "idle"
    /\ SameCall([fn |-> "snv"])
    /\ call' = [fn |-> "snv"]
    /\ output_data' = ZerosLike(caller)
    /\ pc' = "snv_loop"
    /\ i' = 0
    /\ UNCHANGED <<caller, orig, bound, input_data, ref, data_msc, window,
                   filtered, ret, exc, prev>>

\* (row - np.mean(row)) / np.std(row)
SnvCorrect(row) == DivScalar(SubScalar(row, Mean(row)), Std(row))

SnvRow ==
    /\ pc = "snv_loop"
    /\ i < RowCount(caller)
    /\ output_data' = SetRow(output_data, i + 1, SnvCorrect(caller.d[i + 1]))
    /\ i' = i + 1
    /\ UNCHANGED <<caller, orig, call, pc, bound, input_data, ref, data_msc,
                   window, filtered, ret, exc, prev>>

SnvReturn ==
    /\ pc = "snv_loop"
    /\ i = RowCount(caller)
    /\ ret' = "output_data"
    /\ pc' = "returned"
    /\ UNCHANGED <<caller, orig, call, i, bound, input_data, ref, data_msc,
                   output_data, window, filtered, exc, prev>>

(***************************************************************************)
(* smooth(spectra, filter_win=11, window_type='flat', mode='reflect')      *)
(***************************************************************************)

\* np.ones(n): a negative length raises ValueError
Ones(n) ==
    IF n < 0 THEN Result("ValueError", <<>>)
    ELSE Result("none", [j \in 1..n |-> One])

\* scipy.signal.windows.get_window(window_type, n): an unknown name and a
\* negative length raise ValueError; 'boxcar' is the rectangular window.
GetWindow(window_type, n) ==
    IF window_type # "boxcar" THEN Result("ValueError", <<>>)
    ELSE Ones(n)

\* lines 73-77: the window, normalised to unit sum
SmoothWindow(filter_win, window_type) ==
    LET w == IF window_type = "flat" THEN Ones(filter_win)
             ELSE GetWindow(window_type, filter_win)
    IN  IF w.exc # "none" THEN w
        ELSE Result("none", DivScalar(w.val, Sum(w.val)))

CallSmooth(filter_win, window_type, mode) ==
    /\ pc = "idle"
    /\ SameCall([fn |-> "smooth", filter_win |-> filter_win,
                 window_type |-> window_type, mode |-> mode])
    /\ call' = [fn |-> "smooth", filter_win |-> filter_win,
                window_type |-> window_type, mode |-> mode]
    /\ LET w == SmoothWindow(filter_win, window_type)
       IN  IF w.exc # "none"
           THEN Raise(w.exc) /\ UNCHANGED window
           ELSE pc' = "smooth_loop" /\ window' = w.val /\ UNCHANGED exc
    /\ i' = 0
    /\ UNCHANGED <<caller, orig, bound, input_data, ref, data_msc, output_data,
                   filtered, ret, prev>>

\* spectra[row,:] = nd.convolve(spectra[row,:], window, mode=mode)
SmoothRow ==
    /\ pc = "smooth_loop"
    /\ i < RowCount(caller)
    /\ LET r == NdConvolve(caller.d[i + 1], window, call.mode)
       IN  IF r.exc # "none"
           THEN Raise(r.exc) /\ UNCHANGED <<caller, i>>
           ELSE /\ caller' = SetRow(caller, i + 1, r.val)
                /\ i' = i + 1
                /\ UNCHANGED <<pc, exc>>
    /\ UNCHANGED <<orig, call, bound, input_data, ref, data_msc, output_data,
                   window, filtered, ret, prev>>

\* smooth returning a new array instead of its argument.
SmoothResultFresh == "filtered"

\* The array object smooth returns: its argument.
SmoothResult == "caller"

SmoothReturn ==
    /\ pc = "smooth_loop"
    /\ i = RowCount(caller)
    /\ ret' = SmoothResult
    /\ pc' = "returned"
    /\ UNCHANGED <<caller, orig, call, i, bound, input_data, ref, data_msc,
                   output_data, window, filtered, exc, prev>>

(***************************************************************************)
(* savgol(spectra, filter_win=15, poly_order=2, deriv_order=0, delta=1.0)  *)
(***************************************************************************)

CallSavgol(filter_win, poly_order, deriv_order) ==
    /\ pc = "idle"
    /\ SameCall([fn |-> "savgol", filter_win |-> filter_win,
                 poly_order |-> poly_order, deriv_order |-> deriv_order])
    /\ call' = [fn |-> "savgol", filter_win |-> filter_win,
                poly_order |-> poly_order, deriv_order |-> deriv_order]
    /\ pc' = "savgol_filter"
    /\ UNCHANGED <<caller, orig, i, bound, input_data, ref, data_msc,
                   output_data, window, filtered, ret, exc, prev>>

\* return scipy.signal.savgol_filter(spectra, filter_win, poly_order, deriv_order, ...)
SavgolReturn ==
    /\ pc = "savgol_filter"
    /\ \E build \in Builds :
          LET r == SavgolFilter(caller, call.filter_win, call.poly_order,
                                call.deriv_order, build)
          IN  IF r.exc # "none"
              THEN Raise(r.exc) /\ UNCHANGED <<filtered, ret>>
              ELSE /\ filtered' = r.val
                   /\ ret' = "filtered"
                   /\ pc' = "returned"
                   /\ UNCHANGED exc
    /\ UNCHANGED <<caller, orig, call, i, bound, input_data, ref, data_msc,
                   output_data, window, prev>>

(***************************************************************************)
(* The caller makes one call                                               *)
(***************************************************************************)

Next ==
    \/ \E reference \in References(caller.m) : CallMsc(reference)
    \/ MscCentre
    \/ MscRef
    \/ MscFit
    \/ MscReturn
    \/ CallSnv
    \/ SnvRow
    \/ SnvReturn
    \/ \E a \in SmoothArgs : CallSmooth(a[1], a[2], a[3])
    \/ SmoothRow
    \/ SmoothReturn
    \/ \E a \in SavgolArgs : CallSavgol(a[1], a[2], a[3])
    \/ SavgolReturn

Spec == Init /\ [][Next]_vars

(***************************************************************************)
(* The caller makes a second call, with the same arguments, on another     *)
(* matrix of the same shape                                                *)
(***************************************************************************)

ReverseRows(a) == Matrix(a.n, a.m, [r \in 1..a.n |-> a.d[a.n + 1 - r]])

\* The matrices of the second call: the rows in reverse order, or one row
\* replaced by another.
Variants(a) ==
    {ReverseRows(a)}
        \cup {SetRow(a, r, row) : r \in 1..a.n, row \in Rows(a.m)}

Again ==
    /\ pc = "returned"
    /\ prev.fn = "none"
    /\ prev' = [fn |-> call.fn, call |-> call, input |-> orig,
                output |-> Returned, ref |-> ref]
    /\ caller' \in Variants(orig)
    /\ orig' = caller'
    /\ call' = NoCall
    /\ pc' = "idle"
    /\ i' = 0
    /\ bound' = "caller"
    /\ input_data' = NoMatrix
    /\ ref' = <<>>
    /\ data_msc' = NoMatrix
    /\ output_data' = NoMatrix
    /\ window' = <<>>
    /\ filtered' = NoMatrix
    /\ ret' = "none"
    /\ exc' = "none"

NextPair == Next \/ Again

SpecPair == Init /\ [][NextPair]_vars

(***************************************************************************)
(* Properties                                                              *)
(***************************************************************************)

FAbs(x) == IF x.k = "fin" THEN Fin(Abs(x.m), x.e) ELSE IF x.k = "inf" THEN PosInf ELSE NaN

\* x <= y, for finite x and y
FLeq(x, y) == LET d == FSub(x, y) IN d.k = "fin" /\ d.m <= 0

\* Sixteen units of roundoff.
Tolerance == Normalize(1, 4 - MantBits)

Near(x, y) == FLeq(FAbs(FSub(x, y)), Tolerance)

\* The population standard deviation, sqrt(sum((s - mean(s))^2) / N).
PopulationStd(s) ==
    LET mu == Mean(s)
        sq == [j \in 1..Len(s) |-> FMul(FSub(s[j], mu), FSub(s[j], mu))]
    IN  FSqrt(FDiv(Sum(sq), FromInt(Len(s))))

IsConstant(row) == \A j \in 1..Len(row) : row[j] = row[1]

Loops == {"msc", "snv", "smooth"}

\* C1: whenever a call to msc, snv, smooth or savgol returns, the matrix it
\* returns has exactly the rows and columns of the matrix passed in.
ShapePreserved ==
    pc = "returned" => Shape(Returned) = Shape(orig) /\ WellShaped(Returned)

\* smooth has returned for a full-size matrix and a window longer than its rows
ShapePreservedWitness ==
    /\ pc = "returned"
    /\ call.fn = "smooth"
    /\ call.filter_win > orig.m
    /\ orig.n = MaxRows
    /\ orig.m = MaxCols

\* C2: during and after a call to msc, snv or savgol, whether it returns or
\* raises, every cell of the caller's matrix holds the value it held before
\* the call; msc centres a copy.
InputUnchanged ==
    call.fn \in {"msc", "snv", "savgol"} => caller = orig

\* msc has returned after centring rows of its copy
InputUnchangedWitness ==
    /\ pc = "returned"
    /\ call.fn = "msc"
    /\ orig.n = MaxRows
    /\ input_data # orig

\* C3: when smooth returns, the array it returns is the caller's array, and
\* every row of it has been overwritten with the smoothed row.
SmoothInPlace ==
    (pc = "returned" /\ call.fn = "smooth") =>
        /\ ret = "caller"
        /\ \A r \in 1..orig.n :
              caller.d[r] = NdConvolve(orig.d[r], window, call.mode).val

\* smooth has returned and the caller's matrix no longer holds its old values
SmoothInPlaceWitness ==
    /\ pc = "returned"
    /\ call.fn = "smooth"
    /\ orig.n = MaxRows
    /\ \A r \in 1..orig.n : caller.d[r] # orig.d[r]

\* C4: a call that raises has returned nothing and left the caller's matrix as
\* it was, and smooth raises before its first row is processed; a call that
\* returns has processed every row.
NoPartialResults ==
    /\ pc = "raised" => ret = "none" /\ caller = orig
    /\ (pc = "raised" /\ call.fn = "smooth") => i = 0
    /\ (pc = "returned" /\ call.fn \in Loops) => i = orig.n

\* smooth has raised on an unknown boundary mode, with rows to process
NoPartialResultsWitness ==
    /\ pc = "raised"
    /\ call.fn = "smooth"
    /\ call.mode = "bogus"
    /\ call.filter_win = 3
    /\ orig.n = MaxRows

AllZero(a) == \A r \in 1..a.n : \A j \in 1..a.m : IsZero(a.d[r][j])

DegenerateRowsNonFinite ==
    /\ (pc = "returned" /\ call.fn = "snv") =>
          \A r \in 1..orig.n :
              IsConstant(orig.d[r]) => NoneFinite(output_data.d[r])
    /\ (pc = "returned" /\ call.fn = "msc") =>
          \A r \in 1..orig.n :
              (\E fit \in Polyfit(ref, input_data.d[r]) :
                   fit.exc = "none" /\ IsZero(fit.a))
                  => NoneFinite(data_msc.d[r])
    /\ (pc = "raised" /\ call.fn = "msc" /\ ~call.reference.given) =>
          ~(\E r \in 1..orig.n : IsConstant(orig.d[r]))

SmoothUnitWindowIdentity ==
    (pc = "returned" /\ call.fn = "smooth" /\ call.filter_win = 1
        /\ call.window_type = "flat") => Returned = orig

\* smooth with the unit flat window has returned for a matrix of ramps
SmoothUnitWindowIdentityWitness ==
    /\ pc = "returned"
    /\ call.fn = "smooth"
    /\ call.filter_win = 1
    /\ call.window_type = "flat"
    /\ call.mode = "wrap"
    /\ orig.n = MaxRows
    /\ \A r \in 1..orig.n : orig.d[r] = Ramp(MaxCols)

\* The shared reference or window of the two calls is the same.
SameShared ==
    IF call.fn = "msc" THEN prev.ref = ref ELSE TRUE

\* C10: of two calls with the same arguments (and, for msc, the same reference
\* spectrum), a row of the first input that equals a row of the second gives
\* equal output rows, whatever the other rows hold and wherever the row stands.
RowIndependence ==
    (pc = "returned" /\ prev.fn # "none" /\ SameShared) =>
        \A r1 \in 1..prev.input.n : \A r2 \in 1..orig.n :
            prev.input.d[r1] = orig.d[r2] => prev.output.d[r1] = Returned.d[r2]

\* msc has returned twice, for matrices that share a row and differ in another
RowIndependenceWitness ==
    /\ pc = "returned"
    /\ prev.fn = "msc"
    /\ prev.call.reference.given
    /\ orig.n = MaxRows
    /\ \E r \in 1..orig.n : prev.input.d[r] = orig.d[r]
    /\ \E r \in 1..orig.n : prev.input.d[r] # orig.d[r]

====
